---- MODULE Spec2Model ----
(***************************************************************************)
(* PAL-E observer (src/server.js) and PAL-E dashboard relay                *)
(* (src/unnamed/part_000).                                                 *)
(*                                                                         *)
(* The observer watches the save directory, coalesces 'change'             *)
(* notifications with a one-shot timer, parses Level.sav asynchronously,   *)
(* diffs the snapshot against the retained world state and broadcasts at   *)
(* most one game_event per cooldown window.  The dashboard connects to the *)
(* observer as a WebSocket client, mirrors its state and relays every      *)
(* message to its browsers, reconnecting after a fixed delay.  Each        *)
(* program greets the connections that attach to its WebSocket server; the *)
(* observer also broadcasts the announcements posted to /say.              *)
(*                                                                         *)
(* Time is Date.now() in milliseconds.  The observer's clock advances in   *)
(* steps of one debounce window, the relay's in steps of one reconnect     *)
(* delay.  A timer callback runs at the instant of its deadline: the clock *)
(* does not advance past a due timer, but any other event of the same      *)
(* instant may run before it.                                              *)
(***************************************************************************)
EXTENDS Integers, Sequences, FiniteSets, TLC

VARIABLES
    now,             \* Date.now()
    lastEventTime,   \* server.js:21
    lastCommentTime, \* server.js:22
    pendingChanges,  \* server.js:23, a sequence of paths
    worldState,      \* server.js:26-32
    timers,          \* deadlines of the outstanding setTimeout(processPendingChanges) timers
    passes,          \* processPendingChanges passes suspended at `await parseSaveFile`
    readyPc,         \* position of the watcher's 'ready' handler
    sent,            \* every message handed to broadcast(), oldest first
    notified,        \* history: paths notified since processPendingChanges last ran
    lastPass,        \* history: what the last finished pass did
    clients,         \* wss.clients of the observer, with what each has been sent
    responses,       \* history: the process's responses to POST /say and GET /status
    watchErrors,     \* history: the watcher's 'error' events so far
    \* the dashboard relay (part_000)
    sockets,           \* the upstream sockets connectToObserver has created, oldest first
    observerConnected, \* part_000:25
    reconnectTimers,   \* deadlines of the outstanding setTimeout(connectToObserver) timers
    mirror,            \* part_000:17-24, the relay's worldState
    recentEvents,      \* part_000:26
    published,         \* every message handed to broadcastToBrowsers(), oldest first
    received,          \* history: number of upstream messages delivered
    browsers,          \* browserWss.clients, with what each has been sent
    \* which of the two programs the process runs: "observer" (server.js) or
    \* "dashboard" (part_000)
    proc,
    \* one call of pale.analyzeWorldChanges followed by the gate's choice
    dNew, dOld, dDone, dEvents, dBest

observerVars == <<lastEventTime, lastCommentTime, pendingChanges, worldState,
                  timers, passes, readyPc, sent, notified, lastPass, clients,
                  responses, watchErrors>>
relayVars == <<sockets, observerConnected, reconnectTimers, mirror, recentEvents,
               published, received, browsers>>
diffVars == <<dNew, dOld, dDone, dEvents, dBest>>

vars == <<now, proc, observerVars, relayVars, diffVars>>

----------------------------------------------------------------------------
(* Configuration *)

debounceMs == 30000
commentCooldownMs == 60000
parseTimeoutMs == 60000

\* granularity of the observer's clock
Tick == debounceMs
\* Date.now() when the process starts: later than both windows after the epoch
StartTime == commentCooldownMs + Tick
\* the observer is followed for MaxTicks clock steps
MaxTicks == 4
MaxTime == StartTime + MaxTicks * Tick

Null == "null"
\* worldState.lastParsed = null
NullTime == 0

----------------------------------------------------------------------------
(* Sequences *)

Range(s) == {s[i] : i \in DOMAIN s}

\* Array.prototype.includes
Includes(s, x) == \E i \in DOMAIN s : s[i] = x

\* Array.prototype.find, given the elements that satisfy the test: the first
\* of them, as a sequence of length 0 (undefined) or 1
First(hits) == IF hits = <<>> THEN <<>> ELSE <<Head(hits)>>

RemoveAt(s, i) == SubSeq(s, 1, i - 1) \o SubSeq(s, i + 1, Len(s))

----------------------------------------------------------------------------
(* Paths: the directory components, the file's stem and its extension *)

LevelSav       == [dir |-> <<"SaveGames", "W1">>, stem |-> "Level", ext |-> "sav"]
LevelMetaSav   == [dir |-> <<"SaveGames", "W1">>, stem |-> "LevelMeta", ext |-> "sav"]
WorldLocalData == [dir |-> <<"SaveGames", "W1">>, stem |-> "LocalData", ext |-> "sav"]
PlayerSav      == [dir |-> <<"SaveGames", "W1", "Players">>, stem |-> "UID1", ext |-> "sav"]
PlayerLocalData == [dir |-> <<"SaveGames", "W1", "Players", "UID1">>,
                    stem |-> "LocalData", ext |-> "sav"]
OtherFile      == [dir |-> <<"SaveGames", "W1">>, stem |-> "notes", ext |-> "txt"]

\* the files whose 'change' notifications are followed
WatchedPaths == {LevelSav, PlayerLocalData}

\* path.basename(fp) === stem.ext
BaseNameIs(fp, stem, ext) == fp.stem = stem /\ fp.ext = ext

----------------------------------------------------------------------------
(* Snapshots, as parse_save.py prints them *)

Snapshot(ok, players, pals, wid, host) ==
    [success |-> ok, players |-> players, pal_count |-> pals,
     world_id |-> wid, host_player |-> host]

\* a result with success = false
FailedSnapshot == Snapshot(FALSE, <<>>, 0, Null, Null)

\* the results parseSaveFile resolves with in the observer's runs
Snapshots ==
    {Snapshot(TRUE, <<"A">>, 10, "W1", "A"), Snapshot(TRUE, <<"A", "B">>, 12, "W1", "A"),
     FailedSnapshot}

EmptyWorldState ==
    [players |-> <<>>, palCount |-> 0, lastParsed |-> NullTime,
     worldId |-> Null, hostPlayer |-> Null]

----------------------------------------------------------------------------
(* pale: the commentary generator *)

NoRepl == [player |-> <<>>, count |-> <<>>, diff |-> <<>>]

\* The text is one of the category's templates, picked at random, with the
\* replacements filled in; it is kept as the category and the replacements.
getRandomComment(category, replacements) ==
    [category |-> category, repl |-> replacements, text |-> ""]

\* a comment given as literal text
Literal(text) == [category |-> "", repl |-> NoRepl, text |-> text]

Event(type, comment, priority) ==
    [type |-> type, comment |-> comment, priority |-> priority]

\* events.sort((a, b) => a.priority - b.priority): a stable sort
RECURSIVE InsertByPriority(_, _)
InsertByPriority(e, s) ==
    IF s = <<>> THEN <<e>>
    ELSE IF Head(s).priority < e.priority
         THEN <<Head(s)>> \o InsertByPriority(e, Tail(s))
         ELSE <<e>> \o s

\* a sort whose comparator is b.priority - a.priority
RECURSIVE SortDescending(_)
SortDescending(s) ==
    IF s = <<>> THEN <<>>
    ELSE LET rest == SortDescending(Tail(s))
             higher == SelectSeq(rest, LAMBDA e : e.priority > Head(s).priority)
             others == SelectSeq(rest, LAMBDA e : e.priority <= Head(s).priority)
         IN  higher \o <<Head(s)>> \o others

RECURSIVE SortByPriority(_)
SortByPriority(s) ==
    IF s = <<>> THEN <<>>
    ELSE InsertByPriority(Head(s), SortByPriority(Tail(s)))

\* the new-player rule stopping at the first player it finds
FirstNewPlayerEvent(newData, oldState) ==
    LET joined == SelectSeq(newData.players, LAMBDA p : ~Includes(oldState.players, p))
    IN  IF joined = <<>> THEN <<>>
        ELSE <<Event("new_player",
                     getRandomComment("newPlayerEvents",
                                      [NoRepl EXCEPT !.player = <<joined[1]>>]),
                     1)>>

NewPlayerEvents(newData, oldState) ==
    LET joined == SelectSeq(newData.players, LAMBDA p : ~Includes(oldState.players, p))
    IN  [i \in DOMAIN joined |->
            Event("new_player",
                  getRandomComment("newPlayerEvents",
                                   [NoRepl EXCEPT !.player = <<joined[i]>>]),
                  1)]

PlayerLeftEvents(newData, oldState) ==
    LET left == SelectSeq(oldState.players, LAMBDA p : ~Includes(newData.players, p))
    IN  [i \in DOMAIN left |->
            Event("player_left",
                  getRandomComment("playerLeftEvents",
                                   [NoRepl EXCEPT !.player = <<left[i]>>]),
                  1)]

\* the pal-count rule without the test of the previous count
PalCountEventsUnsuppressed(newData, oldState) ==
    LET palDiff == newData.pal_count - oldState.palCount
        repl == [NoRepl EXCEPT !.count = <<newData.pal_count>>, !.diff = <<palDiff>>]
    IN  IF palDiff > 0
        THEN <<Event("pal_gained", getRandomComment("palGainEvents", repl), 2)>>
        ELSE IF palDiff < 0
             THEN <<Event("pal_lost", getRandomComment("palLossEvents", repl), 2)>>
             ELSE <<>>

PalCountEvents(newData, oldState) ==
    LET palDiff == newData.pal_count - oldState.palCount
        repl == [NoRepl EXCEPT !.count = <<newData.pal_count>>, !.diff = <<palDiff>>]
    IN  IF palDiff > 0 /\ oldState.palCount > 0
        THEN <<Event("pal_gained", getRandomComment("palGainEvents", repl), 2)>>
        ELSE IF palDiff < 0
             THEN <<Event("pal_lost", getRandomComment("palLossEvents", repl), 2)>>
             ELSE <<>>

\* the generic rule without the test of lastParsed
GenericSaveEventsAlways(events, oldState) ==
    IF Len(events) = 0
    THEN <<Event("world_save", getRandomComment("saveEvents", NoRepl), 3)>>
    ELSE <<>>

GenericSaveEvents(events, oldState) ==
    IF Len(events) = 0 /\ oldState.lastParsed # NullTime
    THEN <<Event("world_save", getRandomComment("saveEvents", NoRepl), 3)>>
    ELSE <<>>

analyzeWorldChanges(newData, oldState) ==
    IF ~newData.success THEN <<>>
    ELSE LET specific == NewPlayerEvents(newData, oldState)
                         \o PlayerLeftEvents(newData, oldState)
                         \o PalCountEvents(newData, oldState)
         IN  SortByPriority(specific \o GenericSaveEvents(specific, oldState))

\* dirName.includes('Players')
DirIncludesPlayers(fp) == Includes(fp.dir, "Players")

analyzeFileChange(fp) ==
    IF BaseNameIs(fp, "Level", "sav")
    THEN [type |-> "world_save", comment |-> <<getRandomComment("worldEvents", NoRepl)>>]
    ELSE IF BaseNameIs(fp, "LocalData", "sav")
    THEN [type |-> "local_save", comment |-> <<getRandomComment("saveEvents", NoRepl)>>]
    ELSE IF fp.ext = "sav" /\ DirIncludesPlayers(fp)
    THEN [type |-> "player_save",
          comment |-> <<getRandomComment("playerSaveEvents", NoRepl)>>]
    ELSE IF BaseNameIs(fp, "LevelMeta", "sav")
    THEN [type |-> "meta_save", comment |-> <<getRandomComment("saveEvents", NoRepl)>>]
    ELSE [type |-> "unknown", comment |-> <<>>]

----------------------------------------------------------------------------
(* The event gate and the fallback selection.  A message is kept with the  *)
(* same fields whatever its type; a field the message does not have is <<>>,*)
(* a field it has is <<value>>.                                            *)

\* the cooldown compared as if it were given in seconds
CooldownInSeconds(t, last) == t - last > commentCooldownMs \div 1000

\* now - lastCommentTime > CONFIG.commentCooldownMs
CooldownElapsed(t, last) == t - last > commentCooldownMs

\* const event = events[0]
BestEvent(events) == events[1]

\* the priority list the other way round
ReversedPriority == <<"meta_save", "local_save", "player_save", "world_save">>

\* const priority = [...]
FallbackPriority == <<"world_save", "player_save", "local_save", "meta_save">>

\* the first analysis of the first type of FallbackPriority that has one with
\* a comment, as a sequence of length 0 (null) or 1
RECURSIVE FirstByPriority(_, _)
FirstByPriority(analyses, priority) ==
    IF priority = <<>> THEN <<>>
    ELSE LET found == First(SelectSeq(analyses,
                               LAMBDA a : a.type = Head(priority) /\ a.comment # <<>>))
         IN  IF found # <<>> THEN found
             ELSE FirstByPriority(analyses, Tail(priority))

FallbackBest(pending) ==
    FirstByPriority([i \in DOMAIN pending |-> analyzeFileChange(pending[i])],
                    FallbackPriority)

\* a send to every client of the set, whatever its readyState
broadcastToAll(conns, message) ==
    [c \in DOMAIN conns |-> [conns[c] EXCEPT !.inbox = Append(@, message)]]

\* broadcast(message): client.send to every client whose readyState is OPEN
broadcast(conns, message) ==
    [c \in DOMAIN conns |->
        IF conns[c].readyState = "open"
        THEN [conns[c] EXCEPT !.inbox = Append(@, message)]
        ELSE conns[c]]

\* the message of a diff pass built from the retained state as it is before
\* the overwrite
StaleDiffMessage(event, t, state) ==
    [type |-> "game_event", eventType |-> event.type, comment |-> <<event.comment>>,
     timestamp |-> t,
     worldState |-> <<[players |-> worldState.players,
                       palCount |-> worldState.palCount]>>,
     filesChanged |-> <<>>, connected |-> <<>>, message |-> <<>>,
     recentEvents |-> <<>>]

\* the message of a diff pass
DiffMessage(event, t, state) ==
    [type |-> "game_event", eventType |-> event.type, comment |-> <<event.comment>>,
     timestamp |-> t,
     worldState |-> <<[players |-> state.players, palCount |-> state.palCount]>>,
     filesChanged |-> <<>>, connected |-> <<>>, message |-> <<>>,
     recentEvents |-> <<>>]

\* the message of fallbackAnalysis
FallbackMessage(best, t, pending) ==
    [type |-> "game_event", eventType |-> best.type, comment |-> best.comment,
     timestamp |-> t, worldState |-> <<>>, filesChanged |-> <<Len(pending)>>,
     connected |-> <<>>, message |-> <<>>, recentEvents |-> <<>>]

\* the message of POST /say
ManualMessage(text, t) ==
    [type |-> "manual", eventType |-> "", comment |-> <<Literal(text)>>,
     timestamp |-> t, worldState |-> <<>>, filesChanged |-> <<>>, connected |-> <<>>,
     message |-> <<>>, recentEvents |-> <<>>]

\* the greeting of wss.on('connection')
GreetingMessage(t) ==
    [type |-> "greeting", eventType |-> "",
     comment |-> <<getRandomComment("greetings", NoRepl)>>,
     timestamp |-> t, worldState |-> <<>>, filesChanged |-> <<>>, connected |-> <<>>,
     message |-> <<>>, recentEvents |-> <<>>]

----------------------------------------------------------------------------
(* The observer: state after construction *)

\* kind: "none", "fallback" (no Level.sav), "diff" (parsed), "failed" (success =
\* false) or "rejected" (parseSaveFile threw); events: the types of the events
\* the diff found; emitted: whether the pass broadcast
NoPass == [kind |-> "none", events |-> <<>>, emitted |-> FALSE]

InitObserver ==
    /\ lastEventTime = 0
    /\ lastCommentTime = 0
    /\ pendingChanges = <<>>
    /\ worldState = EmptyWorldState
    /\ timers = {}
    /\ passes = <<>>
    /\ readyPc = [pc |-> "start", start |-> 0]
    /\ sent = <<>>
    /\ notified = {}
    /\ lastPass = NoPass
    /\ clients = <<>>
    /\ responses = <<>>
    /\ watchErrors = 0

\* part_000:17-24
EmptyMirror ==
    [worldId |-> Null, hostPlayer |-> Null, players |-> <<>>, palCount |-> 0,
     baseCount |-> 0, lastParsed |-> NullTime]

InitRelayIdle ==
    /\ sockets = <<>>
    /\ observerConnected = FALSE
    /\ reconnectTimers = <<>>
    /\ mirror = EmptyMirror
    /\ recentEvents = <<>>
    /\ published = <<>>
    /\ received = 0
    /\ browsers = <<>>

InitDiffIdle ==
    /\ dNew = FailedSnapshot
    /\ dOld = EmptyWorldState
    /\ dDone = FALSE
    /\ dEvents = <<>>
    /\ dBest = <<>>

Init ==
    /\ proc = "observer"
    /\ now = StartTime
    /\ InitObserver
    /\ InitRelayIdle
    /\ InitDiffIdle
\* the retained state left as it is, the overwrite put off
KeptWorldState(saveData, t) == worldState

\* worldState.players = saveData.players || [] ... (server.js:241-245, 378-382)
UpdatedWorldState(saveData, t) ==
    [players |-> saveData.players, palCount |-> saveData.pal_count,
     lastParsed |-> t, worldId |-> saveData.world_id,
     hostPlayer |-> saveData.host_player]

----------------------------------------------------------------------------
(* watcher.on('change').  With ignoreInitial the watcher reports changes  *)
(* of the files it has scanned, so notifications follow the 'ready' event. *)

\* the quiet period taken to be over at the instant the window ends
QuietPeriodReached(t, last) == t - last >= debounceMs

\* now - lastEventTime > CONFIG.debounceMs
QuietPeriodOver(t, last) == t - last > debounceMs

\* the path pushed whether or not the set holds it
PushAlways(pending, fp) == Append(pending, fp)

\* if (!pendingChanges.includes(filePath)) pendingChanges.push(filePath)
PushIfAbsent(pending, fp) ==
    IF Includes(pending, fp) THEN pending ELSE Append(pending, fp)

Change(fp) ==
    /\ readyPc.pc # "start"
    /\ pendingChanges' = PushIfAbsent(pendingChanges, fp)
    /\ IF QuietPeriodOver(now, lastEventTime)
       THEN /\ lastEventTime' = now
            /\ timers' = timers \cup {now + debounceMs}
       ELSE UNCHANGED <<lastEventTime, timers>>
    /\ notified' = notified \cup {fp}
    /\ UNCHANGED <<relayVars, diffVars, proc, watchErrors>>
    /\ UNCHANGED <<now, lastCommentTime, worldState, passes, readyPc, sent, lastPass,
                   clients, responses>>

----------------------------------------------------------------------------
(* fallbackAnalysis, run on the pending paths at time t: the broadcast and *)
(* the new lastCommentTime                                                 *)

FallbackEmits(pending, t, last) ==
    LET best == FallbackBest(pending)
    IN  best # <<>> /\ best[1].comment # <<>> /\ CooldownElapsed(t, last)

FallbackSent(pending, t, last, log) ==
    IF FallbackEmits(pending, t, last)
    THEN Append(log, FallbackMessage(FallbackBest(pending)[1], t, pending))
    ELSE log

\* the clients after fallbackAnalysis's broadcast
FallbackDelivered(pending, t, last, conns) ==
    IF FallbackEmits(pending, t, last)
    THEN broadcast(conns, FallbackMessage(FallbackBest(pending)[1], t, pending))
    ELSE conns

FallbackCommentTime(pending, t, last) ==
    IF FallbackEmits(pending, t, last) THEN t ELSE last

----------------------------------------------------------------------------
(* processPendingChanges, from the timer's callback to the first await or  *)
(* to its end                                                              *)

IsLevelSav(fp) == BaseNameIs(fp, "Level", "sav")

ProcessPendingChanges(d) ==
    /\ d \in timers
    /\ now >= d
    /\ timers' = timers \ {d}
    /\ notified' = {}
    /\ IF pendingChanges = <<>>
       THEN UNCHANGED <<pendingChanges, passes, sent, lastCommentTime, lastPass,
                        clients>>
       ELSE LET levelSavPath == First(SelectSeq(pendingChanges, IsLevelSav))
            IN  IF levelSavPath # <<>>
                THEN /\ passes' = Append(passes, [path |-> levelSavPath[1],
                                                  start |-> now,
                                                  handed |-> pendingChanges])
                     /\ UNCHANGED <<pendingChanges, sent, lastCommentTime, lastPass,
                                    clients>>
                ELSE /\ sent' = FallbackSent(pendingChanges, now, lastCommentTime, sent)
                     /\ clients' = FallbackDelivered(pendingChanges, now,
                                                     lastCommentTime, clients)
                     /\ lastCommentTime' =
                            FallbackCommentTime(pendingChanges, now, lastCommentTime)
                     /\ pendingChanges' = <<>>
                     /\ lastPass' = [NoPass EXCEPT
                                       !.kind = "fallback",
                                       !.emitted = FallbackEmits(pendingChanges, now,
                                                                 lastCommentTime)]
                     /\ UNCHANGED passes
    /\ UNCHANGED <<relayVars, diffVars, proc, watchErrors>>
    /\ UNCHANGED <<now, lastEventTime, worldState, readyPc, responses>>

----------------------------------------------------------------------------
(* processPendingChanges, resumed when parseSaveFile settles *)

\* the diff pass's gate without the cooldown
DiffEmitsWithoutCooldown(events, t, last) == Len(events) > 0

DiffEmits(events, t, last) == Len(events) > 0 /\ CooldownElapsed(t, last)

\* parseSaveFile resolved with saveData
ParseResolved(i, saveData) ==
    /\ i \in DOMAIN passes
    /\ passes' = RemoveAt(passes, i)
    /\ LET events == analyzeWorldChanges(saveData, worldState)
           updated == UpdatedWorldState(saveData, now)
           emits == saveData.success /\ DiffEmits(events, now, lastCommentTime)
       IN  /\ worldState' = IF saveData.success THEN updated ELSE worldState
           /\ lastCommentTime' = IF emits THEN now ELSE lastCommentTime
           /\ sent' = IF emits
                      THEN Append(sent, DiffMessage(BestEvent(events), now, updated))
                      ELSE sent
           /\ clients' = IF emits
                         THEN broadcast(clients,
                                        DiffMessage(BestEvent(events), now, updated))
                         ELSE clients
           /\ lastPass' = [kind |-> IF saveData.success THEN "diff" ELSE "failed",
                           events |-> [k \in DOMAIN events |-> events[k].type],
                           emitted |-> emits]
    /\ pendingChanges' = <<>>
    /\ UNCHANGED <<relayVars, diffVars, proc, watchErrors>>
    /\ UNCHANGED <<now, lastEventTime, timers, readyPc, notified, responses>>

\* parseSaveFile rejected: error, timeout or malformed output
ParseRejected(i) ==
    /\ i \in DOMAIN passes
    /\ passes' = RemoveAt(passes, i)
    /\ sent' = FallbackSent(pendingChanges, now, lastCommentTime, sent)
    /\ clients' = FallbackDelivered(pendingChanges, now, lastCommentTime, clients)
    /\ lastCommentTime' = FallbackCommentTime(pendingChanges, now, lastCommentTime)
    /\ lastPass' = [NoPass EXCEPT
                      !.kind = "rejected",
                      !.emitted = FallbackEmits(pendingChanges, now, lastCommentTime)]
    /\ pendingChanges' = <<>>
    /\ UNCHANGED <<relayVars, diffVars, proc, watchErrors>>
    /\ UNCHANGED <<now, lastEventTime, worldState, timers, readyPc, notified,
                   responses>>

----------------------------------------------------------------------------
(* watcher.on('ready'): load the newest Level.sav, if there is one *)

Ready(found) ==
    /\ readyPc.pc = "start"
    /\ readyPc' = IF found THEN [pc |-> "parsing", start |-> now]
                  ELSE [pc |-> "done", start |-> now]
    /\ UNCHANGED <<relayVars, diffVars, proc, watchErrors>>
    /\ UNCHANGED <<now, lastEventTime, lastCommentTime, pendingChanges, worldState,
                   timers, passes, sent, notified, lastPass, clients, responses>>

ReadyResolved(saveData) ==
    /\ readyPc.pc = "parsing"
    /\ readyPc' = [readyPc EXCEPT !.pc = "done"]
    /\ worldState' = IF saveData.success THEN UpdatedWorldState(saveData, now)
                     ELSE worldState
    /\ UNCHANGED <<relayVars, diffVars, proc, watchErrors>>
    /\ UNCHANGED <<now, lastEventTime, lastCommentTime, pendingChanges,
                   timers, passes, sent, notified, lastPass, clients, responses>>

ReadyRejected ==
    /\ readyPc.pc = "parsing"
    /\ readyPc' = [readyPc EXCEPT !.pc = "done"]
    /\ UNCHANGED <<relayVars, diffVars, proc, watchErrors>>
    /\ UNCHANGED <<now, lastEventTime, lastCommentTime, pendingChanges, worldState,
                   timers, passes, sent, notified, lastPass, clients, responses>>

----------------------------------------------------------------------------
(* The clock.  The initial scan ends within the first clock step; a parse  *)
(* settles within parseTimeoutMs (execFile's timeout).                     *)

Advance ==
    /\ now + Tick <= MaxTime
    /\ readyPc.pc # "start"
    /\ \A d \in timers : now < d
    /\ \A i \in DOMAIN passes : now < passes[i].start + parseTimeoutMs
    /\ readyPc.pc = "parsing" => now < readyPc.start + parseTimeoutMs
    /\ now' = now + Tick
    /\ UNCHANGED <<relayVars, diffVars, proc, watchErrors>>
    /\ UNCHANGED <<lastEventTime, lastCommentTime, pendingChanges, worldState,
                   timers, passes, readyPc, sent, notified, lastPass, clients,
                   responses>>

Next ==
    \/ \E fp \in WatchedPaths : Change(fp)
    \/ \E d \in timers : ProcessPendingChanges(d)
    \/ \E i \in DOMAIN passes : \E saveData \in Snapshots : ParseResolved(i, saveData)
    \/ \E i \in DOMAIN passes : ParseRejected(i)
    \/ \E found \in BOOLEAN : Ready(found)
    \/ \E saveData \in Snapshots : ReadyResolved(saveData)
    \/ ReadyRejected
    \/ Advance

Spec == Init /\ [][Next]_vars

\* every step of the event loop that is not a notification from the watcher:
\* a due timer's callback, a settling parse, the initial load, the clock
Scheduled ==
    \/ \E d \in timers : ProcessPendingChanges(d)
    \/ \E i \in DOMAIN passes : \E saveData \in Snapshots : ParseResolved(i, saveData)
    \/ \E i \in DOMAIN passes : ParseRejected(i)
    \/ \E found \in BOOLEAN : Ready(found)
    \/ \E saveData \in Snapshots : ReadyResolved(saveData)
    \/ ReadyRejected
    \/ Advance

\* the observer under the event loop's scheduling: a due timer's callback
\* runs, a parse settles within its timeout and time passes; the watcher
\* may fall silent for good
SpecLive == Init /\ [][Next]_vars /\ WF_vars(Scheduled)

----------------------------------------------------------------------------
(* pale.analyzeWorldChanges on its own: one call on any snapshot and any   *)
(* previous state, followed by the gate's choice of events[0]              *)

PlayerNames == {"A", "B", "C"}
\* longest player list
MaxPlayers == 2
PalCounts == {0, 10, 12}

PlayerLists == UNION {[1..n -> PlayerNames] : n \in 0..MaxPlayers}

DiffSnapshots ==
    {Snapshot(ok, ps, n, "W1", "A") : ok \in BOOLEAN, ps \in PlayerLists, n \in PalCounts}

DiffStates ==
    {[players |-> ps, palCount |-> n, lastParsed |-> t, worldId |-> "W1",
      hostPlayer |-> "A"] : ps \in PlayerLists, n \in PalCounts, t \in {NullTime, StartTime}}

InitDiff ==
    /\ proc = "observer"
    /\ now = StartTime
    /\ InitObserver
    /\ InitRelayIdle
    /\ dNew \in DiffSnapshots
    /\ dOld \in DiffStates
    /\ dDone = FALSE
    /\ dEvents = <<>>
    /\ dBest = <<>>

Analyze ==
    /\ ~dDone
    /\ dDone' = TRUE
    /\ LET events == analyzeWorldChanges(dNew, dOld)
       IN  /\ dEvents' = events
           /\ dBest' = IF Len(events) > 0 THEN <<BestEvent(events)>> ELSE <<>>
    /\ UNCHANGED <<dNew, dOld, now, proc, observerVars, relayVars>>

NextDiff == Analyze

SpecDiff == InitDiff /\ [][NextDiff]_vars

----------------------------------------------------------------------------
(* The dashboard relay (part_000): connectToObserver and the handlers of   *)
(* its upstream socket.  A socket is "connecting", "open", "failing" (its  *)
(* 'error' event has been emitted and its 'close' event is still to come)  *)
(* or "closed".                                                            *)

reconnectDelayMs == 3000
recentEventsCapacity == 50

\* granularity of the relay's clock
RelayTick == reconnectDelayMs
\* the relay is followed for MaxRelayTicks clock steps
MaxRelayTicks == 3
\* upstream sockets created
MaxSockets == 3
\* upstream messages delivered
MaxMessages == 2

\* what the upstream may send: ok says whether JSON.parse accepts the data
UpstreamData ==
    {[ok |-> TRUE, event |-> GreetingMessage(StartTime)],
     [ok |-> TRUE,
      event |-> DiffMessage(Event("new_player",
                                  getRandomComment("newPlayerEvents",
                                                   [NoRepl EXCEPT !.player = <<"B">>]),
                                  1),
                            StartTime,
                            UpdatedWorldState(Snapshot(TRUE, <<"A", "B">>, 12, "W1", "A"),
                                              StartTime))],
     [ok |-> TRUE,
      event |-> FallbackMessage(analyzeFileChange(PlayerSav), StartTime, <<PlayerSav>>)],
     [ok |-> FALSE, event |-> GreetingMessage(StartTime)]}

InitRelay ==
    /\ proc = "dashboard"
    /\ now = StartTime
    /\ InitObserver
    /\ InitDiffIdle
    /\ InitRelayIdle

StatusMessage(connected, t) ==
    [type |-> "observer_status", eventType |-> "", comment |-> <<>>,
     timestamp |-> t, worldState |-> <<>>, filesChanged |-> <<>>,
     connected |-> <<connected>>, message |-> <<>>, recentEvents |-> <<>>]

\* observerWs = new WebSocket(CONFIG.observerWsUrl)
NewSocket(socks) == Append(socks, "connecting")

\* a reconnect scheduled without the delay
ScheduleAtOnce(pending, t) == Append(pending, t)

\* a reconnect scheduled only when the closed connection had been open
ScheduleAfterOpenOnly(pending, t) ==
    IF observerConnected THEN Append(pending, t + reconnectDelayMs) ELSE pending

\* a reconnect scheduled twice for one close
ScheduleTwice(pending, t) ==
    Append(Append(pending, t + reconnectDelayMs), t + reconnectDelayMs)

\* setTimeout(connectToObserver, CONFIG.reconnectDelayMs)
ScheduleReconnect(pending, t) == Append(pending, t + reconnectDelayMs)

\* recentEvents.unshift(event) without the cut
UnshiftUncut(events, event) == <<event>> \o events

\* recentEvents.unshift(event), cut to the newest recentEventsCapacity
Unshift(events, event) ==
    LET longer == <<event>> \o events
    IN  IF Len(longer) > recentEventsCapacity
        THEN SubSeq(longer, 1, recentEventsCapacity)
        ELSE longer

\* a relay that passes only game_events on
broadcastGameEvents(conns, message) ==
    [b \in DOMAIN conns |->
        IF conns[b].readyState = "open" /\ message.type = "game_event"
        THEN [conns[b] EXCEPT !.inbox = Append(@, message)]
        ELSE conns[b]]

\* broadcastToBrowsers(message): client.send to every browser whose
\* readyState is OPEN
broadcastToBrowsers(conns, message) ==
    [b \in DOMAIN conns |->
        IF conns[b].readyState = "open"
        THEN [conns[b] EXCEPT !.inbox = Append(@, message)]
        ELSE conns[b]]

\* a parser that yields an object for any input
DecodeLeniently(data) == <<data.event>>

\* JSON.parse(data.toString()) inside the handler's try: the event, as a
\* sequence of length 1, or nothing when the parser throws
Decode(data) == IF data.ok THEN <<data.event>> ELSE <<>>

\* the payload's fields written over the mirror's, the others kept
MergeMirror(current, event) ==
    IF event.worldState # <<>>
    THEN [f \in DOMAIN current \cup DOMAIN event.worldState[1] |->
             IF f \in DOMAIN event.worldState[1] THEN event.worldState[1][f]
             ELSE current[f]]
    ELSE current

\* if (event.worldState) worldState = event.worldState
NextMirror(current, event) ==
    IF event.worldState # <<>> THEN event.worldState[1] ELSE current

\* httpServer.listen's callback: the first connectToObserver
Listen ==
    /\ sockets = <<>>
    /\ sockets' = NewSocket(sockets)
    /\ UNCHANGED <<observerConnected, reconnectTimers, mirror, recentEvents,
                   published, received, browsers, now, observerVars, diffVars, proc>>

\* observerWs.on('open')
UpstreamOpen(k) ==
    /\ k \in DOMAIN sockets
    /\ sockets[k] = "connecting"
    /\ sockets' = [sockets EXCEPT ![k] = "open"]
    /\ observerConnected' = TRUE
    /\ published' = Append(published, StatusMessage(TRUE, now))
    /\ browsers' = broadcastToBrowsers(browsers, StatusMessage(TRUE, now))
    /\ UNCHANGED <<reconnectTimers, mirror, recentEvents, received, now,
                   observerVars, diffVars, proc>>

\* observerWs.on('message')
UpstreamMessage(k, data) ==
    /\ k \in DOMAIN sockets
    /\ sockets[k] = "open"
    /\ received < MaxMessages
    /\ received' = received + 1
    /\ LET decoded == Decode(data)
       IN  IF decoded # <<>>
           THEN LET event == decoded[1]
                IN  /\ mirror' = NextMirror(mirror, event)
                    /\ recentEvents' =
                           IF event.type = "game_event" \/ event.type = "file_changed"
                           THEN Unshift(recentEvents, event)
                           ELSE recentEvents
                    /\ published' = Append(published, event)
                    /\ browsers' = broadcastToBrowsers(browsers, event)
           ELSE UNCHANGED <<mirror, recentEvents, published, browsers>>
    /\ UNCHANGED <<sockets, observerConnected, reconnectTimers, now,
                   observerVars, diffVars, proc>>

\* observerWs.on('error'): logs; the socket's 'close' event follows
UpstreamError(k) ==
    /\ k \in DOMAIN sockets
    /\ sockets[k] \in {"connecting", "open"}
    /\ sockets' = [sockets EXCEPT ![k] = "failing"]
    /\ UNCHANGED <<observerConnected, reconnectTimers, mirror, recentEvents,
                   published, received, browsers, now, observerVars, diffVars, proc>>

\* observerWs.on('close')
UpstreamClose(k) ==
    /\ k \in DOMAIN sockets
    /\ sockets[k] \in {"connecting", "open", "failing"}
    /\ sockets' = [sockets EXCEPT ![k] = "closed"]
    /\ observerConnected' = FALSE
    /\ published' = Append(published, StatusMessage(FALSE, now))
    /\ browsers' = broadcastToBrowsers(browsers, StatusMessage(FALSE, now))
    /\ reconnectTimers' = ScheduleReconnect(reconnectTimers, now)
    /\ UNCHANGED <<mirror, recentEvents, received, now, observerVars, diffVars, proc>>

\* the reconnect timer's callback: connectToObserver
Reconnect(j) ==
    /\ j \in DOMAIN reconnectTimers
    /\ now >= reconnectTimers[j]
    /\ Len(sockets) < MaxSockets
    /\ reconnectTimers' = RemoveAt(reconnectTimers, j)
    /\ sockets' = NewSocket(sockets)
    /\ UNCHANGED <<observerConnected, mirror, recentEvents, published, received,
                   browsers, now, observerVars, diffVars, proc>>

RelayAdvance ==
    /\ now + RelayTick <= StartTime + MaxRelayTicks * RelayTick
    /\ \A j \in DOMAIN reconnectTimers : now < reconnectTimers[j]
    /\ now' = now + RelayTick
    /\ UNCHANGED <<relayVars, observerVars, diffVars, proc>>

NextRelay ==
    \/ Listen
    \/ \E k \in DOMAIN sockets : UpstreamOpen(k)
    \/ \E k \in DOMAIN sockets : \E data \in UpstreamData : UpstreamMessage(k, data)
    \/ \E k \in DOMAIN sockets : UpstreamError(k)
    \/ \E k \in DOMAIN sockets : UpstreamClose(k)
    \/ \E j \in DOMAIN reconnectTimers : Reconnect(j)
    \/ RelayAdvance

SpecRelay == InitRelay /\ [][NextRelay]_vars

\* The relay with its scheduling: time passes, and the event loop runs the
\* callback of a timer that is due.
SpecRelayLive ==
    /\ InitRelay
    /\ [][NextRelay]_vars
    /\ WF_vars(RelayAdvance)
    /\ WF_vars(\E j \in DOMAIN reconnectTimers : Reconnect(j))

----------------------------------------------------------------------------
(* The two hubs: the observer's WebSocket server with its POST /say, and   *)
(* the dashboard's browser WebSocket server.  A connection is kept with    *)
(* its readyState, "open" or "closed", and the messages sent to it, oldest *)
(* first.                                                                  *)

\* connections accepted by the observer's hub
MaxClients == 2
\* connections accepted by the dashboard's hub
MaxBrowsers == 2
\* POST /say requests
MaxRequests == 2

\* entries of recentEvents in the dashboard's greeting
greetingWindow == 10

\* request bodies of POST /say, as sequences of characters
Bodies == {<<>>, <<" ">>, <<"h", "i">>, <<" ", "h", "i", " ">>}

Whitespace == {" "}

RECURSIVE TrimStart(_)
TrimStart(text) ==
    IF text # <<>> /\ Head(text) \in Whitespace THEN TrimStart(Tail(text)) ELSE text

RECURSIVE TrimEnd(_)
TrimEnd(text) ==
    IF text # <<>> /\ text[Len(text)] \in Whitespace
    THEN TrimEnd(SubSeq(text, 1, Len(text) - 1))
    ELSE text

\* the body taken as it is
TrimNothing(text) == text

\* String.prototype.trim
Trim(text) == TrimEnd(TrimStart(text))

\* a snapshot that lists one player twice
DuplicateSnapshot == Snapshot(TRUE, <<"A", "A">>, 10, "W1", "A")

\* the results parseSaveFile resolves with at the hub
HubSnapshots == Snapshots \cup {DuplicateSnapshot}

Connection(first) == [readyState |-> "open", inbox |-> <<first>>]

\* wss.on('connection'): the socket is in wss.clients when the handler runs
ClientConnect ==
    /\ Len(clients) < MaxClients
    /\ clients' = Append(clients, Connection(GreetingMessage(now)))
    /\ UNCHANGED <<now, proc, lastEventTime, lastCommentTime, pendingChanges,
                   worldState, timers, passes, readyPc, sent, notified, lastPass,
                   responses, watchErrors, relayVars, diffVars>>

\* a client's socket closes
ClientClose(c) ==
    /\ c \in DOMAIN clients
    /\ clients[c].readyState = "open"
    /\ clients' = [clients EXCEPT ![c].readyState = "closed"]
    /\ UNCHANGED <<now, proc, lastEventTime, lastCommentTime, pendingChanges,
                   worldState, timers, passes, readyPc, sent, notified, lastPass,
                   responses, watchErrors, relayVars, diffVars>>

\* POST /say, from the request's 'end' event
Say(body) ==
    /\ Len(responses) < MaxRequests
    /\ LET comment == Trim(body)
       IN  IF comment # <<>>
           THEN /\ sent' = Append(sent, ManualMessage(comment, now))
                /\ clients' = broadcast(clients, ManualMessage(comment, now))
                /\ responses' = Append(responses, [status |-> 200, body |-> "OK"])
           ELSE /\ responses' = Append(responses,
                                       [status |-> 400, body |-> "Empty message"])
                /\ UNCHANGED <<sent, clients>>
    /\ UNCHANGED <<now, proc, lastEventTime, lastCommentTime, pendingChanges,
                   worldState, timers, passes, readyPc, notified, lastPass,
                   watchErrors, relayVars, diffVars>>

\* the greeting without the state and the events
BareGreeting(connected, state, events, t) ==
    [type |-> "greeting", eventType |-> "", comment |-> <<>>, timestamp |-> t,
     worldState |-> <<>>, filesChanged |-> <<>>, connected |-> <<>>,
     message |-> <<IF connected THEN "PAL-E Dashboard connected"
                   ELSE "Waiting for Observer...">>,
     recentEvents |-> <<>>]

\* the greeting of browserWss.on('connection')
DashboardGreeting(connected, state, events, t) ==
    [type |-> "greeting", eventType |-> "", comment |-> <<>>, timestamp |-> t,
     worldState |-> <<state>>, filesChanged |-> <<>>, connected |-> <<>>,
     message |-> <<IF connected THEN "PAL-E Dashboard connected"
                   ELSE "Waiting for Observer...">>,
     recentEvents |-> <<SubSeq(events, 1, IF Len(events) < greetingWindow
                                          THEN Len(events) ELSE greetingWindow)>>]

\* browserWss.on('connection')
BrowserConnect ==
    /\ Len(browsers) < MaxBrowsers
    /\ browsers' = Append(browsers,
                          Connection(DashboardGreeting(observerConnected, mirror,
                                                       recentEvents, now)))
    /\ UNCHANGED <<now, proc, sockets, observerConnected, reconnectTimers, mirror,
                   recentEvents, published, received, observerVars, diffVars>>

\* a browser's socket closes
BrowserClose(b) ==
    /\ b \in DOMAIN browsers
    /\ browsers[b].readyState = "open"
    /\ browsers' = [browsers EXCEPT ![b].readyState = "closed"]
    /\ UNCHANGED <<now, proc, sockets, observerConnected, reconnectTimers, mirror,
                   recentEvents, published, received, observerVars, diffVars>>

\* the process runs one of the two programs
InitHubs ==
    /\ proc \in {"observer", "dashboard"}
    /\ now = StartTime
    /\ InitObserver
    /\ InitRelayIdle
    /\ InitDiffIdle

NextObserverHub ==
    \/ \E found \in BOOLEAN : Ready(found)
    \/ \E saveData \in HubSnapshots : ReadyResolved(saveData)
    \/ ReadyRejected
    \/ ClientConnect
    \/ \E c \in DOMAIN clients : ClientClose(c)
    \/ \E body \in Bodies : Say(body)

NextDashboardHub ==
    \/ Listen
    \/ \E k \in DOMAIN sockets : UpstreamOpen(k)
    \/ \E k \in DOMAIN sockets : \E data \in UpstreamData : UpstreamMessage(k, data)
    \/ \E k \in DOMAIN sockets : UpstreamError(k)
    \/ \E k \in DOMAIN sockets : UpstreamClose(k)
    \/ BrowserConnect
    \/ \E b \in DOMAIN browsers : BrowserClose(b)

NextHubs ==
    \/ proc = "observer" /\ NextObserverHub
    \/ proc = "dashboard" /\ NextDashboardHub

SpecHubs == InitHubs /\ [][NextHubs]_vars

----------------------------------------------------------------------------
(* The dashboard some time into a run: connected to the observer, with     *)
(* recentEvents filled by the game_events relayed so far.  published and   *)
(* received count from this moment on.                                     *)

\* the i-th newest of the events relayed so far, received i ms ago
EarlierEvent(i) ==
    IF i % 2 = 1
    THEN FallbackMessage(analyzeFileChange(PlayerSav), StartTime - i, <<PlayerSav>>)
    ELSE FallbackMessage(analyzeFileChange(LevelSav), StartTime - i, <<LevelSav>>)

\* recentEvents after n game_events
EarlierEvents(n) == [i \in 1..n |-> EarlierEvent(i)]

\* numbers of events relayed so far: none, and around the two limits
EarlierCounts ==
    {0, greetingWindow - 1, greetingWindow, recentEventsCapacity - 1,
     recentEventsCapacity}

InitRing ==
    /\ proc = "dashboard"
    /\ now = StartTime
    /\ InitObserver
    /\ InitDiffIdle
    /\ sockets = <<"open">>
    /\ observerConnected = TRUE
    /\ reconnectTimers = <<>>
    /\ mirror = EmptyMirror
    /\ recentEvents \in {EarlierEvents(n) : n \in EarlierCounts}
    /\ published = <<>>
    /\ received = 0
    /\ browsers = <<>>

NextRing ==
    \/ \E k \in DOMAIN sockets : \E data \in UpstreamData : UpstreamMessage(k, data)
    \/ BrowserConnect
    \/ \E b \in DOMAIN browsers : BrowserClose(b)

SpecRing == InitRing /\ [][NextRing]_vars

----------------------------------------------------------------------------
(* POST /say beside the fallback pipeline: the changes of a player's file, *)
(* their flushes and the announcements of an operator                      *)

NextSay ==
    \/ Change(PlayerLocalData)
    \/ \E d \in timers : ProcessPendingChanges(d)
    \/ \E found \in BOOLEAN : Ready(found)
    \/ \E saveData \in Snapshots : ReadyResolved(saveData)
    \/ ReadyRejected
    \/ Advance
    \/ \E body \in Bodies : Say(body)

SpecSay == Init /\ [][NextSay]_vars

----------------------------------------------------------------------------
(* The relay hop: the dashboard fed with the messages the observer's hub   *)
(* sends, each kept with the observer's worldState at the time of the send *)

\* the observer's worldState before the initial load and after it
OriginStates ==
    {EmptyWorldState,
     UpdatedWorldState(Snapshot(TRUE, <<"A">>, 10, "W1", "A"), StartTime)}

\* the snapshots of a successful parse, with the state each is diffed against
OriginParses ==
    {pair \in Snapshots \X OriginStates :
        pair[1].success /\ analyzeWorldChanges(pair[1], pair[2]) # <<>>}

\* the greeting of wss.on('connection') and the game_event of a diff pass,
\* as the observer builds them
OriginSends ==
    {[ok |-> TRUE, event |-> GreetingMessage(StartTime), origin |-> state] :
        state \in OriginStates}
    \cup
    {[ok |-> TRUE,
      event |-> DiffMessage(BestEvent(analyzeWorldChanges(pair[1], pair[2])),
                            StartTime, UpdatedWorldState(pair[1], StartTime)),
      origin |-> UpdatedWorldState(pair[1], StartTime)] : pair \in OriginParses}

NextHop ==
    \/ Listen
    \/ \E k \in DOMAIN sockets : UpstreamOpen(k)
    \/ \E k \in DOMAIN sockets : \E data \in OriginSends : UpstreamMessage(k, data)
    \/ \E k \in DOMAIN sockets : UpstreamError(k)
    \/ \E k \in DOMAIN sockets : UpstreamClose(k)
    \/ \E j \in DOMAIN reconnectTimers : Reconnect(j)
    \/ RelayAdvance

SpecHop == InitRelay /\ [][NextHop]_vars

----------------------------------------------------------------------------
(* The observer some time into a run, at the instant a flush timer is due, *)
(* with any pending set of up to MaxPending of the files of the save       *)
(* directory, inside or outside the cooldown window of an earlier          *)
(* emission.  sent counts from this moment on.                             *)

\* longest pending set
MaxPending == 3

AllPaths ==
    {LevelSav, LevelMetaSav, WorldLocalData, PlayerSav, PlayerLocalData, OtherFile}

\* the duplicate-free sequences of up to MaxPending paths
PendingSets ==
    {s \in UNION {[1..n -> AllPaths] : n \in 0..MaxPending} :
        \A i, j \in DOMAIN s : i # j => s[i] # s[j]}

InitFallback ==
    /\ proc = "observer"
    /\ now = StartTime + 2 * Tick
    /\ InitRelayIdle
    /\ InitDiffIdle
    /\ lastEventTime = now - debounceMs
    /\ lastCommentTime \in {0, now - Tick}
    /\ pendingChanges \in PendingSets
    /\ worldState = EmptyWorldState
    /\ timers = {now}
    /\ passes = <<>>
    /\ readyPc = [pc |-> "done", start |-> StartTime]
    /\ sent = <<>>
    /\ notified = Range(pendingChanges)
    /\ lastPass = NoPass
    /\ clients = <<>>
    /\ responses = <<>>
    /\ watchErrors = 0

NextFallback ==
    \/ \E d \in timers : ProcessPendingChanges(d)
    \/ \E i \in DOMAIN passes : \E saveData \in Snapshots : ParseResolved(i, saveData)
    \/ \E i \in DOMAIN passes : ParseRejected(i)

SpecFallback == InitFallback /\ [][NextFallback]_vars

----------------------------------------------------------------------------
(* The watcher's 'error' event and GET /status.  The handler logs the      *)
(* error and nothing else: it neither closes the watcher nor removes the   *)
(* 'change' handler, so whether notifications keep coming is up to the     *)
(* watcher.                                                                *)

\* most 'error' events of the watcher
MaxWatchErrors == 1
\* most GET /status requests
MaxStatusRequests == 2

\* watcher.on('error'): console.error
WatchError ==
    /\ readyPc.pc # "start"
    /\ watchErrors < MaxWatchErrors
    /\ watchErrors' = watchErrors + 1
    /\ UNCHANGED <<relayVars, diffVars, proc>>
    /\ UNCHANGED <<now, lastEventTime, lastCommentTime, pendingChanges, worldState,
                   timers, passes, readyPc, sent, notified, lastPass, clients,
                   responses>>

\* the body of GET /status: the five fields of worldState and a statusReport
\* comment on the numbers of players and pals (uptime, the process's age, is
\* left out)
StatusBody(state) ==
    [worldState |-> [worldId |-> state.worldId, hostPlayer |-> state.hostPlayer,
                     players |-> state.players, palCount |-> state.palCount,
                     lastParsed |-> state.lastParsed],
     comment |-> [category |-> "statusReport", players |-> Len(state.players),
                  pals |-> state.palCount]]

\* GET /status
GetStatus ==
    /\ Len(responses) < MaxStatusRequests
    /\ responses' = Append(responses, [status |-> 200, body |-> StatusBody(worldState)])
    /\ UNCHANGED <<relayVars, diffVars, proc, watchErrors>>
    /\ UNCHANGED <<now, lastEventTime, lastCommentTime, pendingChanges, worldState,
                   timers, passes, readyPc, sent, notified, lastPass, clients>>

NextWatch ==
    \/ Change(PlayerLocalData)
    \/ \E d \in timers : ProcessPendingChanges(d)
    \/ \E found \in BOOLEAN : Ready(found)
    \/ \E saveData \in Snapshots : ReadyResolved(saveData)
    \/ ReadyRejected
    \/ Advance
    \/ WatchError
    \/ GetStatus

SpecWatch == Init /\ [][NextWatch]_vars

----------------------------------------------------------------------------
(* The dashboard through an outage.  It starts some time into a run,       *)
(* connected, with the mirror and recentEvents as the messages relayed so  *)
(* far have left them; the upstream then fails, closes and is reconnected  *)
(* while browsers attach and GET /status is asked.                         *)

\* the mirror after the messages relayed so far: the payload of the last
\* game_event of a diff pass
EarlierMirror == [players |-> <<"A">>, palCount |-> 10]

\* numbers of events relayed so far: within the greeting's window and beyond
OutageCounts == {1, greetingWindow + 1}

\* browsers that attach during the outage
MaxAttaches == 1
\* GET /status requests to the dashboard
MaxRelayQueries == 1

\* an outage state the relay answers GET /status with, the mirror withheld
\* while the observer is away
OutageStatusBody(state, connected) ==
    [worldState |-> IF connected THEN state ELSE EmptyMirror,
     observerConnected |-> connected]

\* the body of the dashboard's GET /status (uptime, the process's age, is
\* left out)
RelayStatusBody(state, connected) ==
    [worldState |-> state, observerConnected |-> connected]

\* the dashboard's GET /status
RelayGetStatus ==
    /\ Len(responses) < MaxRelayQueries
    /\ responses' = Append(responses,
                           [status |-> 200,
                            body |-> RelayStatusBody(mirror, observerConnected)])
    /\ UNCHANGED <<now, proc, relayVars, diffVars, watchErrors>>
    /\ UNCHANGED <<lastEventTime, lastCommentTime, pendingChanges, worldState,
                   timers, passes, readyPc, sent, notified, lastPass, clients>>

InitOutage ==
    /\ proc = "dashboard"
    /\ now = StartTime
    /\ InitObserver
    /\ InitDiffIdle
    /\ sockets = <<"open">>
    /\ observerConnected = TRUE
    /\ reconnectTimers = <<>>
    /\ mirror = EarlierMirror
    /\ recentEvents \in {EarlierEvents(n) : n \in OutageCounts}
    /\ published = <<>>
    /\ received = 0
    /\ browsers = <<>>

NextOutage ==
    \/ \E k \in DOMAIN sockets : UpstreamOpen(k)
    \/ \E k \in DOMAIN sockets : UpstreamError(k)
    \/ \E k \in DOMAIN sockets : UpstreamClose(k)
    \/ \E j \in DOMAIN reconnectTimers : Reconnect(j)
    \/ RelayAdvance
    \/ Len(browsers) < MaxAttaches /\ BrowserConnect
    \/ RelayGetStatus

SpecOutage == InitOutage /\ [][NextOutage]_vars

----------------------------------------------------------------------------
(* Properties of the observer's coalescing pipeline *)

AutoEvents == SelectSeq(sent, LAMBDA m : m.type = "game_event")

\* C1: every call of processPendingChanges by the flush timer finds a
\* non-empty pending set, and that set is exactly the deduplicated union of
\* the paths notified since the previous call (the notifications of its
\* debounce window): one flush per window, with all of the window's paths.
C1_OneFlushPerWindow ==
    [][\A d \in timers :
          ProcessPendingChanges(d) =>
              /\ pendingChanges # <<>>
              /\ Range(pendingChanges) = notified]_vars

\* C2: at most one processPendingChanges pass is in progress at any time: no
\* pass starts while another is suspended awaiting parseSaveFile.
C2_NoOverlappingPasses == Len(passes) <= 1

\* C3: the clear at the end of a pass removes only paths that were in the
\* set handed to that pass; a path notified while the pass awaited the
\* parser survives the clear.
C3_ClearOnlyHandedPaths ==
    [][\A i \in DOMAIN passes : \A saveData \in Snapshots :
          ParseResolved(i, saveData) =>
              Range(pendingChanges) \subseteq Range(passes[i].handed)]_vars

\* C4: any two automatically emitted game_event broadcasts, whichever of the
\* parse path and the fallback path emitted them, have emission times at
\* least commentCooldownMs apart.
C4_CooldownBetweenEmissions ==
    \A i, j \in DOMAIN AutoEvents :
        i < j => AutoEvents[j].timestamp - AutoEvents[i].timestamp >= commentCooldownMs

\* C4 witness: a fallback emission and a diff emission have both happened.
C4_Witness ==
    /\ Len(AutoEvents) >= 2
    /\ \E i, j \in DOMAIN AutoEvents :
          AutoEvents[i].filesChanged # <<>> /\ AutoEvents[j].worldState # <<>>

\* C5: a fallback pass over the single pending path
\* .../Players/UID1/LocalData.sav, the cooldown permitting, broadcasts a
\* player_save event.
C5_PlayerDirectoryFileIsPlayerSave ==
    [][\A d \in timers :
          (/\ ProcessPendingChanges(d)
           /\ pendingChanges = <<PlayerLocalData>>
           /\ CooldownElapsed(now, lastCommentTime)) =>
              /\ Len(sent') = Len(sent) + 1
              /\ sent'[Len(sent')].eventType = "player_save"]_vars

\* C10: a pass whose parse succeeds with a non-empty event list inside the
\* cooldown window broadcasts nothing and leaves lastCommentTime alone, and
\* still overwrites every field of the retained world state from the
\* snapshot.
C10_SuppressedPassStillUpdatesState ==
    [][\A i \in DOMAIN passes : \A saveData \in Snapshots :
          (/\ ParseResolved(i, saveData)
           /\ saveData.success
           /\ analyzeWorldChanges(saveData, worldState) # <<>>
           /\ now - lastCommentTime <= commentCooldownMs) =>
              /\ sent' = sent
              /\ lastCommentTime' = lastCommentTime
              /\ worldState'.players = saveData.players
              /\ worldState'.palCount = saveData.pal_count
              /\ worldState'.lastParsed = now
              /\ worldState'.worldId = saveData.world_id
              /\ worldState'.hostPlayer = saveData.host_player]_vars

\* C10 witness: after an earlier emission, a diff pass found events and did
\* not broadcast.
C10_Witness ==
    /\ lastPass.kind = "diff"
    /\ lastPass.events # <<>>
    /\ ~lastPass.emitted
    /\ Len(AutoEvents) >= 1
    /\ worldState.lastParsed = now

----------------------------------------------------------------------------
(* Properties of pale.analyzeWorldChanges *)

EventTypes(events) == [i \in DOMAIN events |-> events[i].type]
HasType(events, type) == \E i \in DOMAIN events : events[i].type = type

\* the positions of the players of `players` that `others` does not hold
Absent(players, others) == {i \in DOMAIN players : players[i] \notin Range(others)}

\* C7: with the same player set and an equal pal count, a successful
\* snapshot yields no new_player, player_left, pal_gained or pal_lost event,
\* and yields exactly one world_save event if lastParsed is non-null and no
\* event at all otherwise.
C7_NoChangeGivesWorldSaveOnly ==
    (/\ dDone
     /\ dNew.success
     /\ Range(dNew.players) = Range(dOld.players)
     /\ dNew.pal_count = dOld.palCount) =>
        /\ \A t \in {"new_player", "player_left", "pal_gained", "pal_lost"} :
              ~HasType(dEvents, t)
        /\ dOld.lastParsed # NullTime => EventTypes(dEvents) = <<"world_save">>
        /\ dOld.lastParsed = NullTime => dEvents = <<>>

\* C7 witness: an unchanged world analysed after an earlier successful parse.
C7_Witness ==
    /\ dDone
    /\ dNew.success
    /\ dNew.players = <<"A", "B">>
    /\ dOld.players = <<"B", "A">>
    /\ dNew.pal_count = 10
    /\ dOld.palCount = 10
    /\ dOld.lastParsed # NullTime
    /\ Len(dEvents) = 1

\* C8: when the previous pal count is 0 and the snapshot's is positive, no
\* pal_gained event is produced, whatever the player lists are.
C8_FirstObservationSuppressed ==
    (dDone /\ dNew.success /\ dOld.palCount = 0 /\ dNew.pal_count > 0) =>
        ~HasType(dEvents, "pal_gained")

\* C8 witness: a previous count of 0 and a snapshot count of 12, with a
\* change of players, have been analysed.
C8_Witness ==
    /\ dDone
    /\ dNew.success
    /\ dOld.palCount = 0
    /\ dNew.pal_count = 12
    /\ dOld.players = <<"A">>
    /\ dNew.players = <<"A", "B">>
    /\ dEvents # <<>>

\* the event list the rules prescribe: one new_player per snapshot player
\* absent from the previous list, in snapshot order; then one player_left
\* per previous player absent from the snapshot, in the previous list's
\* order; then the pal-count event; world_save only when none of these fired
ExpectedTypes ==
    LET joined == Cardinality(Absent(dNew.players, dOld.players))
        left == Cardinality(Absent(dOld.players, dNew.players))
        delta == dNew.pal_count - dOld.palCount
        pal == IF delta > 0 /\ dOld.palCount > 0 THEN <<"pal_gained">>
               ELSE IF delta < 0 THEN <<"pal_lost">> ELSE <<>>
        specific == [i \in 1..joined |-> "new_player"]
                    \o [i \in 1..left |-> "player_left"] \o pal
    IN  IF specific = <<>> /\ dOld.lastParsed # NullTime THEN <<"world_save">>
        ELSE specific

\* the k-th position of `players` that `others` does not hold
NthAbsent(players, others, k) ==
    CHOOSE i \in Absent(players, others) :
        Cardinality({j \in Absent(players, others) : j <= i}) = k

\* C9: every matching rule fires and the list is sorted ascending by
\* priority with ties in rule order (new_player events in snapshot order,
\* then player_left events in the previous list's order, then the pal-count
\* event), and the gate's choice is the first element of that list; the
\* previous state {[A], 10, parsed} and the snapshot {[A, B], 12} give
\* [new_player(B), pal_gained(12, +2)] with new_player the chosen event.
C9_RankedEventsAndBestChoice ==
    (dDone /\ dNew.success) =>
        /\ EventTypes(dEvents) = ExpectedTypes
        /\ \A i, j \in DOMAIN dEvents : i < j => dEvents[i].priority <= dEvents[j].priority
        /\ \A i \in DOMAIN dEvents :
              /\ dEvents[i].type = "new_player" =>
                    /\ dEvents[i].priority = 1
                    /\ dEvents[i].comment.repl.player =
                          <<dNew.players[NthAbsent(dNew.players, dOld.players, i)]>>
              /\ dEvents[i].type = "player_left" =>
                    /\ dEvents[i].priority = 1
                    /\ dEvents[i].comment.repl.player =
                          <<dOld.players[NthAbsent(dOld.players, dNew.players,
                                i - Cardinality(Absent(dNew.players, dOld.players)))]>>
              /\ dEvents[i].type \in {"pal_gained", "pal_lost"} =>
                    /\ dEvents[i].priority = 2
                    /\ dEvents[i].comment.repl.count = <<dNew.pal_count>>
                    /\ dEvents[i].comment.repl.diff = <<dNew.pal_count - dOld.palCount>>
              /\ dEvents[i].type = "world_save" => dEvents[i].priority = 3
        /\ dBest = IF dEvents = <<>> THEN <<>> ELSE <<dEvents[1]>>
        /\ (/\ dOld.players = <<"A">>
            /\ dOld.palCount = 10
            /\ dOld.lastParsed # NullTime
            /\ dNew.players = <<"A", "B">>
            /\ dNew.pal_count = 12) =>
               /\ EventTypes(dEvents) = <<"new_player", "pal_gained">>
               /\ dBest[1].type = "new_player"
               /\ dBest[1].comment.repl.player = <<"B">>

\* C9 witness: the scenario's inputs have been analysed.
C9_Witness ==
    /\ dDone
    /\ dNew.success
    /\ dOld.players = <<"A">>
    /\ dOld.palCount = 10
    /\ dOld.lastParsed # NullTime
    /\ dNew.players = <<"A", "B">>
    /\ dNew.pal_count = 12
    /\ Len(dEvents) = 2

----------------------------------------------------------------------------
(* Properties of the relay *)

IsStatus(m, connected) == m.type = "observer_status" /\ m.connected = <<connected>>

\* C6: when the upstream socket closes while open, the relay sets
\* observerConnected to false, publishes exactly one
\* observer_status{connected:false} and schedules exactly one reconnect
\* timer, due reconnectDelayMs later; the timer's callback, not earlier than
\* its deadline, makes one new connection attempt; and when an attempt
\* opens, exactly one observer_status{connected:true} is published.
C6_CloseThenReconnect ==
    [][/\ \A k \in DOMAIN sockets :
            (sockets[k] = "open" /\ sockets'[k] = "closed") =>
                /\ observerConnected' = FALSE
                /\ Len(published') = Len(published) + 1
                /\ SubSeq(published', 1, Len(published)) = published
                /\ IsStatus(published'[Len(published')], FALSE)
                /\ reconnectTimers' = reconnectTimers \o <<now + reconnectDelayMs>>
                /\ Len(sockets') = Len(sockets)
       /\ Len(reconnectTimers') < Len(reconnectTimers) =>
                /\ \E j \in DOMAIN reconnectTimers :
                      /\ reconnectTimers' = RemoveAt(reconnectTimers, j)
                      /\ now >= reconnectTimers[j]
                /\ sockets' = sockets \o <<"connecting">>
                /\ published' = published
       /\ \A k \in DOMAIN sockets :
            (sockets[k] = "connecting" /\ sockets'[k] = "open") =>
                /\ observerConnected' = TRUE
                /\ Len(published') = Len(published) + 1
                /\ SubSeq(published', 1, Len(published)) = published
                /\ IsStatus(published'[Len(published')], TRUE)]_vars

\* C6 witness: the first socket was open and closed, the reconnect attempt
\* was made after the delay and has opened.
C6_Witness ==
    /\ Len(sockets) = 2
    /\ sockets[1] = "closed"
    /\ sockets[2] = "open"
    /\ reconnectTimers = <<>>
    /\ observerConnected
    /\ Len(published) = 3
    /\ IsStatus(published[1], TRUE)
    /\ IsStatus(published[2], FALSE)
    /\ IsStatus(published[3], TRUE)
    /\ published[3].timestamp >= published[2].timestamp + reconnectDelayMs

----------------------------------------------------------------------------
(* Properties of POST /say *)

\* C11: a POST /say whose body holds a character that is not white space is
\* broadcast at once as one message of type manual stamped with the time of
\* the request, whatever lastCommentTime is, and answered 200; it leaves
\* lastCommentTime, lastEventTime, the retained world state, the pending set,
\* the flush timers and the suspended passes as they were, so the gate of
\* the next automatic event sees what it would have seen without it.  A body
\* that is empty or all white space is answered 400 and broadcasts nothing.
C11_ManualAnnounceBypassesGate ==
    [][\A body \in Bodies :
          Say(body) =>
              /\ UNCHANGED <<lastCommentTime, lastEventTime, worldState,
                             pendingChanges, timers, passes>>
              /\ Len(responses') = Len(responses) + 1
              /\ IF \E i \in DOMAIN body : body[i] \notin Whitespace
                 THEN /\ Len(sent') = Len(sent) + 1
                      /\ SubSeq(sent', 1, Len(sent)) = sent
                      /\ sent'[Len(sent')].type = "manual"
                      /\ sent'[Len(sent')].timestamp = now
                      /\ sent'[Len(sent')].comment[1].text # <<>>
                      /\ responses'[Len(responses')].status = 200
                 ELSE /\ sent' = sent
                      /\ clients' = clients
                      /\ responses'[Len(responses')].status = 400]_vars

\* C11 witness: an announcement went out inside the cooldown window of an
\* automatic event, the next automatic event went out as soon as that window
\* allowed, and an empty announcement was refused.
C11_Witness ==
    /\ \E i, j, k \in DOMAIN sent :
          /\ i < j /\ j < k
          /\ sent[i].type = "game_event"
          /\ sent[j].type = "manual"
          /\ sent[j].timestamp - sent[i].timestamp <= commentCooldownMs
          /\ sent[k].type = "game_event"
          /\ sent[k].timestamp - sent[j].timestamp <= commentCooldownMs
    /\ \E r \in DOMAIN responses : responses[r].status = 400

----------------------------------------------------------------------------
(* Properties of the retained world state *)

NoDuplicates(s) == \A i, j \in DOMAIN s : i # j => s[i] # s[j]

\* C12: in every reachable state the retained player list holds no
\* identifier twice, in the observer's worldState and in the dashboard's
\* mirror, whatever snapshot parseSaveFile or the upstream delivers.
C12_NoDuplicatePlayers ==
    /\ NoDuplicates(worldState.players)
    /\ NoDuplicates(mirror.players)

----------------------------------------------------------------------------
(* Properties of the pending change set *)

\* C13: pendingChanges never holds a path twice; a 'change' notification
\* for a path the set holds leaves the set as it is, one for a path it does
\* not hold puts the path behind the paths already there, and nothing else
\* changes the set except a clear to the empty set: the paths stand in the
\* order of their first notification since the last clear.
C13_PendingSetInFirstNotificationOrder ==
    /\ []NoDuplicates(pendingChanges)
    /\ [][/\ \A fp \in WatchedPaths :
                Change(fp) =>
                    IF Includes(pendingChanges, fp)
                    THEN pendingChanges' = pendingChanges
                    ELSE pendingChanges' = pendingChanges \o <<fp>>
          /\ pendingChanges' # pendingChanges =>
                \/ pendingChanges' = <<>>
                \/ \E fp \in WatchedPaths : Change(fp)]_vars

\* C13 witness: after a clear both watched files have been notified, the
\* player's file first, and the set holds them in that order.
C13_Witness ==
    /\ lastPass.kind # "none"
    /\ notified = {PlayerLocalData, LevelSav}
    /\ pendingChanges = <<PlayerLocalData, LevelSav>>

----------------------------------------------------------------------------
(* Properties of a pass whose parse fails *)

\* C15: when parseSaveFile fails for the changed Level.sav of a pass, by
\* rejecting or by resolving with success = false, the pass does what
\* fallbackAnalysis does on the pending paths (its broadcast, the cooldown
\* permitting, and its lastCommentTime) and leaves the retained world state
\* as it was.
C15_ParseFailureFallsBack ==
    [][\A i \in DOMAIN passes :
          (ParseRejected(i) \/ ParseResolved(i, FailedSnapshot)) =>
              /\ worldState' = worldState
              /\ sent' = FallbackSent(pendingChanges, now, lastCommentTime, sent)
              /\ lastCommentTime' =
                     FallbackCommentTime(pendingChanges, now, lastCommentTime)]_vars

----------------------------------------------------------------------------
(* Properties of the relay's reconnection *)

\* the last instant the relay's clock reaches
RelayMaxTime == StartTime + MaxRelayTicks * RelayTick

\* C16: every close of an upstream socket, whether the socket had been open
\* or its attempt failed, schedules one reconnect timer due reconnectDelayMs
\* later, the same delay however many attempts have failed before; and
\* after the close of the newest socket a further connection attempt is
\* eventually made (for every socket but the last one followed, and every
\* close whose deadline the clock reaches).
C16_RelayNeverGivesUp ==
    /\ [][\A k \in DOMAIN sockets :
             (sockets[k] # "closed" /\ sockets'[k] = "closed") =>
                 reconnectTimers' = reconnectTimers \o <<now + reconnectDelayMs>>]_vars
    /\ \A k \in 1..(MaxSockets - 1) :
          (/\ Len(sockets) = k
           /\ sockets[k] = "closed"
           /\ now + reconnectDelayMs <= RelayMaxTime) ~> (Len(sockets) > k)

\* C16 witness: two attempts in a row failed without ever opening, each was
\* followed by the next attempt one reconnectDelayMs later, and the third
\* attempt is under way.
C16_Witness ==
    /\ sockets = <<"closed", "closed", "connecting">>
    /\ Len(published) = 2
    /\ IsStatus(published[1], FALSE)
    /\ IsStatus(published[2], FALSE)
    /\ published[2].timestamp = published[1].timestamp + reconnectDelayMs
    /\ now = published[2].timestamp + reconnectDelayMs

----------------------------------------------------------------------------
(* Properties of the relay's message handler *)

\* C17: an upstream message that decodes and carries a worldState makes the
\* mirror equal to exactly that payload, with the payload's fields and no
\* others; one that decodes and carries none leaves the mirror as it was.
C17_MirrorReplacedWholesale ==
    [][\A k \in DOMAIN sockets : \A data \in UpstreamData :
          (UpstreamMessage(k, data) /\ data.ok) =>
              IF data.event.worldState # <<>>
              THEN /\ mirror' = data.event.worldState[1]
                   /\ DOMAIN mirror' = DOMAIN data.event.worldState[1]
              ELSE mirror' = mirror]_vars

\* C17 witness: a game_event with players and palCount replaced the initial
\* six-field mirror, and a later message without worldState left it alone.
C17_Witness ==
    /\ received = 2
    /\ Len(published) = 3
    /\ published[2].worldState = <<mirror>>
    /\ published[3].worldState = <<>>
    /\ DOMAIN mirror = {"players", "palCount"}
    /\ mirror.players = <<"A", "B">>

\* the messages handed to broadcastToBrowsers that are not observer_status
Relayed == SelectSeq(published, LAMBDA m : m.type # "observer_status")

\* C18: an upstream message that does not decode changes nothing but the
\* count of messages received: the mirror, recentEvents, what has been
\* published and what each browser has been sent stay as they were,
\* observerConnected stays true, the socket stays open and no reconnect is
\* scheduled, so the messages that follow are handled as if it had not come.
C18_UndecodableMessageDropped ==
    [][\A k \in DOMAIN sockets : \A data \in UpstreamData :
          (UpstreamMessage(k, data) /\ ~data.ok) =>
              /\ UNCHANGED <<mirror, recentEvents, published, browsers,
                             observerConnected, reconnectTimers, sockets>>
              /\ observerConnected
              /\ sockets'[k] = "open"]_vars

\* C18 witness: of two messages received on the open socket one did not
\* decode and the other was relayed; the relay is still connected and has
\* scheduled no reconnect.
C18_Witness ==
    /\ received = 2
    /\ Len(Relayed) = 1
    /\ sockets = <<"open">>
    /\ observerConnected
    /\ reconnectTimers = <<>>

----------------------------------------------------------------------------
(* Properties of recentEvents *)

Smaller(a, b) == IF a < b THEN a ELSE b

\* C19: recentEvents never holds more than recentEventsCapacity (50)
\* entries and holds only game_event and file_changed messages; only the
\* message handler writes it, putting a decoded message of one of these two
\* types in front of the entries already there and dropping the oldest
\* entry beyond the capacity, so the entries stand newest first; and the
\* greeting sent to a browser carries its first greetingWindow (10) entries,
\* or all of them if there are fewer.
C19_RecentEventsBoundedNewestFirst ==
    /\ [](/\ Len(recentEvents) <= recentEventsCapacity
          /\ \A i \in DOMAIN recentEvents :
                recentEvents[i].type \in {"game_event", "file_changed"})
    /\ [][/\ \A k \in DOMAIN sockets : \A data \in UpstreamData :
                (UpstreamMessage(k, data) /\ data.ok) =>
                    IF data.event.type \in {"game_event", "file_changed"}
                    THEN recentEvents' =
                             SubSeq(<<data.event>> \o recentEvents, 1,
                                    Smaller(Len(recentEvents) + 1,
                                            recentEventsCapacity))
                    ELSE recentEvents' = recentEvents
          /\ recentEvents' # recentEvents =>
                \E k \in DOMAIN sockets : \E data \in UpstreamData :
                    UpstreamMessage(k, data)
          /\ BrowserConnect =>
                LET greeting == browsers'[Len(browsers')].inbox[1]
                IN  /\ greeting.type = "greeting"
                    /\ greeting.recentEvents =
                           <<SubSeq(recentEvents, 1,
                                    Smaller(Len(recentEvents), greetingWindow))>>]_vars

\* C19 witness: the full list of 50 took one more event, which stands first
\* while the oldest entry is gone, and a browser that attached afterwards
\* was greeted with the 10 newest entries.
C19_Witness ==
    /\ received >= 1
    /\ Len(recentEvents) = recentEventsCapacity
    /\ recentEvents[1].timestamp = StartTime
    /\ recentEvents[recentEventsCapacity] = EarlierEvent(recentEventsCapacity - 1)
    /\ \E b \in DOMAIN browsers :
          /\ Len(browsers[b].inbox[1].recentEvents[1]) = greetingWindow
          /\ browsers[b].inbox[1].recentEvents[1][1] = recentEvents[1]

----------------------------------------------------------------------------
(* Properties of the relay's publishing *)

\* what browser b has been sent after its greeting, the observer_status
\* messages left out
RelayedTo(b) ==
    SelectSeq(Tail(browsers[b].inbox), LAMBDA m : m.type # "observer_status")

\* C20: every upstream message that decodes is handed to
\* broadcastToBrowsers once, as decoded, whatever its type and however
\* close in time to the one before: it is put behind what has been
\* published and behind what each browser whose connection is open has been
\* sent, and no other browser is sent anything.  So what a browser has been
\* sent is a run of consecutive relayed messages, in the order of receipt.
C20_EveryDecodedMessageRelayedOnce ==
    /\ [][\A k \in DOMAIN sockets : \A data \in UpstreamData :
             (UpstreamMessage(k, data) /\ data.ok) =>
                 /\ published' = published \o <<data.event>>
                 /\ DOMAIN browsers' = DOMAIN browsers
                 /\ \A b \in DOMAIN browsers :
                       IF browsers[b].readyState = "open"
                       THEN browsers'[b] =
                                [browsers[b] EXCEPT
                                    !.inbox = browsers[b].inbox \o <<data.event>>]
                       ELSE browsers'[b] = browsers[b]]_vars
    /\ [](\A b \in DOMAIN browsers :
             \E i \in 1..(Len(Relayed) + 1) :
                 RelayedTo(b) = SubSeq(Relayed, i, i + Len(RelayedTo(b)) - 1))

\* C20 witness: two different game_events stamped with the same instant
\* were received in a row; the browser that was open throughout has been
\* sent both in that order, and the browser that had closed has been sent
\* nothing after its greeting.
C20_Witness ==
    /\ Len(Relayed) = 2
    /\ Relayed[1].type = "game_event"
    /\ Relayed[2].type = "game_event"
    /\ Relayed[1] # Relayed[2]
    /\ Relayed[1].timestamp = Relayed[2].timestamp
    /\ \E b, c \in DOMAIN browsers :
          /\ browsers[b].readyState = "open"
          /\ RelayedTo(b) = Relayed
          /\ browsers[c].readyState = "closed"
          /\ browsers[c].inbox = <<browsers[c].inbox[1]>>

----------------------------------------------------------------------------
(* Properties of attaching to a hub *)

\* every connection keeps what it has been sent: later messages go behind
KeepsInbox(before, after) ==
    \A c \in DOMAIN before :
        /\ Len(after[c].inbox) >= Len(before[c].inbox)
        /\ SubSeq(after[c].inbox, 1, Len(before[c].inbox)) = before[c].inbox

----------------------------------------------------------------------------
(* Properties of the relay hop *)

StateFields == {"players", "palCount", "worldId", "hostPlayer", "lastParsed"}

\* C21: when the relay has handled a greeting or a game_event that the
\* observer's hub sent, the relay's mirror has the fields players, palCount,
\* worldId, hostPlayer and lastParsed with the values the observer's
\* worldState had when the message was sent.
C21_MirrorEqualsOriginState ==
    [][\A k \in DOMAIN sockets : \A data \in OriginSends :
          UpstreamMessage(k, data) =>
              \A f \in StateFields :
                  /\ f \in DOMAIN mirror'
                  /\ mirror'[f] = data.origin[f]]_vars

----------------------------------------------------------------------------
(* Properties of the order of passes *)

\* C22: the passes take effect in the order of their flushes: a pass writes
\* the retained world state and broadcasts (when its parse settles, or at
\* once when it has nothing to parse) only if no pass of an earlier flush is
\* still suspended, so that the state after two flushes is that of the
\* later one's snapshot.
C22_PassesTakeEffectInFlushOrder ==
    [][/\ \A i \in DOMAIN passes :
             (\/ ParseRejected(i)
              \/ \E saveData \in Snapshots : ParseResolved(i, saveData)) =>
                 \A j \in DOMAIN passes : passes[j].start >= passes[i].start
       /\ \A d \in timers :
             (ProcessPendingChanges(d) /\ Len(passes') = Len(passes)
                                       /\ pendingChanges # <<>>) =>
                 passes = <<>>]_vars

----------------------------------------------------------------------------
(* Properties of fallbackAnalysis *)

PriorityRank == [world_save |-> 1, player_save |-> 2, local_save |-> 3, meta_save |-> 4]

\* the types the paths of `pending` classify as, unknown left out
KnownTypes(pending) ==
    {analyzeFileChange(pending[i]).type : i \in DOMAIN pending} \ {"unknown"}

\* C23: a pass that runs fallbackAnalysis (a flush without Level.sav, or a
\* pass whose parse was rejected) selects, of the types its pending paths
\* classify as, the one that comes first in world_save > player_save >
\* local_save > meta_save, and broadcasts it if the cooldown has elapsed; a
\* path classified unknown is never selected, and when every path is
\* unknown nothing is broadcast and lastCommentTime stays as it was.
C23_FallbackSelectsByPriority ==
    [][(\/ \E d \in timers :
              /\ ProcessPendingChanges(d)
              /\ pendingChanges # <<>>
              /\ \A i \in DOMAIN pendingChanges : ~IsLevelSav(pendingChanges[i])
        \/ \E i \in DOMAIN passes : ParseRejected(i)) =>
          LET types == KnownTypes(pendingChanges)
          IN  IF types # {} /\ now - lastCommentTime > commentCooldownMs
              THEN /\ Len(sent') = Len(sent) + 1
                   /\ sent'[Len(sent')].eventType \in types
                   /\ \A t \in types :
                         PriorityRank[sent'[Len(sent')].eventType] <= PriorityRank[t]
                   /\ lastCommentTime' = now
              ELSE /\ sent' = sent
                   /\ lastCommentTime' = lastCommentTime]_vars

\* C23 witness: a fallback pass over two paths, of which only one can have
\* classified as player_save, broadcast player_save.
C23_Witness ==
    /\ lastPass.kind = "fallback"
    /\ lastPass.emitted
    /\ Len(sent) = 1
    /\ sent[1].eventType = "player_save"
    /\ sent[1].filesChanged = <<2>>

----------------------------------------------------------------------------
(* Properties of the flush timer *)

C25_EveryNotifiedPathIsFlushed ==
    \A fp \in WatchedPaths :
        (fp \in notified /\ now + debounceMs <= MaxTime) ~> (fp \notin notified)

----------------------------------------------------------------------------
(* Properties of the relay's connection status events *)

IsAnyStatus(m) == m.type = "observer_status"

\* the observer_status events published so far, oldest first
StatusEvents == SelectSeq(published, IsAnyStatus)

\* C26: among the observer_status events published to local consumers,
\* connected:false never follows connected:false directly: between two of
\* them there is a connected:true, however many reconnection attempts fail.
C26_DisconnectNotRepeated ==
    \A i \in 1..(Len(StatusEvents) - 1) :
        ~(IsStatus(StatusEvents[i], FALSE) /\ IsStatus(StatusEvents[i + 1], FALSE))

----------------------------------------------------------------------------
(* Properties of the diff pass's resumed half *)

\* C27: when a pass resumes with a successful snapshot, the diff, the
\* overwrite and the gate happen in that one step, all on the state the step
\* starts from: the events are the diff of the snapshot against the retained
\* state as it is then, the retained state becomes the snapshot's in the same
\* step, and the cooldown is judged on lastCommentTime as it is then, which
\* the same step sets to now together with the broadcast or leaves alone
\* together with no broadcast; other passes stay suspended meanwhile.
C27_DiffOverwriteGateInOneStep ==
    [][\A i \in DOMAIN passes : \A saveData \in Snapshots :
          (ParseResolved(i, saveData) /\ saveData.success) =>
              LET events == analyzeWorldChanges(saveData, worldState)
                  emits == events # <<>> /\ now - lastCommentTime > commentCooldownMs
              IN  /\ lastPass'.events = EventTypes(events)
                  /\ worldState'.players = saveData.players
                  /\ worldState'.palCount = saveData.pal_count
                  /\ worldState'.lastParsed = now
                  /\ worldState'.worldId = saveData.world_id
                  /\ worldState'.hostPlayer = saveData.host_player
                  /\ Len(passes') = Len(passes) - 1
                  /\ IF emits
                     THEN /\ lastCommentTime' = now
                          /\ Len(sent') = Len(sent) + 1
                          /\ SubSeq(sent', 1, Len(sent)) = sent
                          /\ sent'[Len(sent')].eventType = events[1].type
                          /\ sent'[Len(sent')].timestamp = now
                          /\ sent'[Len(sent')].worldState =
                                 <<[players |-> saveData.players,
                                    palCount |-> saveData.pal_count]>>
                     ELSE /\ lastCommentTime' = lastCommentTime
                          /\ sent' = sent]_vars

\* C27 witness: a pass has just diffed, overwritten and broadcast while
\* another pass was suspended in its parse.
C27_Witness ==
    /\ lastPass.kind = "diff"
    /\ lastPass.emitted
    /\ passes # <<>>
    /\ sent # <<>>
    /\ sent[Len(sent)].timestamp = now
    /\ sent[Len(sent)].worldState =
           <<[players |-> worldState.players, palCount |-> worldState.palCount]>>
    /\ worldState.lastParsed = now
    /\ lastCommentTime = now

----------------------------------------------------------------------------
(* Properties of the two hubs' fan-out *)

\* the step publishes one message through the hub whose log is log
Publishes(log, logAfter) ==
    Len(logAfter) = Len(log) + 1 /\ SubSeq(logAfter, 1, Len(log)) = log

\* what a step may do to the connections conns of a hub with the log log:
\* a publish appends its message to the inbox of every connection that is
\* open then and leaves the others alone; any other step leaves every inbox
\* alone; and a connection that is not open has seen its last message
DeliversToOpenOnly(conns, connsAfter, log, logAfter) ==
    \A c \in DOMAIN conns :
        /\ c \in DOMAIN connsAfter
        /\ IF Publishes(log, logAfter) /\ conns[c].readyState = "open"
           THEN connsAfter[c].inbox = Append(conns[c].inbox, logAfter[Len(logAfter)])
           ELSE connsAfter[c].inbox = conns[c].inbox
        /\ conns[c].readyState # "open" => connsAfter[c] = conns[c]

\* C28: a publish, by the observer's hub or by the dashboard's, delivers the
\* message once to exactly the connections that are open at that moment; a
\* connection that is not open then gets nothing for it, neither then nor in
\* any later step.
C28_PublishReachesExactlyOpenConnections ==
    [][/\ sent' = sent \/ Publishes(sent, sent')
       /\ published' = published \/ Publishes(published, published')
       /\ DeliversToOpenOnly(clients, clients', sent, sent')
       /\ DeliversToOpenOnly(browsers, browsers', published, published')]_vars

\* C28 witness: the first client closed before a manual announcement and
\* holds its greeting only; the second, open, holds greeting and
\* announcement.
C28_Witness ==
    /\ Len(clients) = 2
    /\ Len(sent) = 1
    /\ clients[1].readyState = "closed"
    /\ Len(clients[1].inbox) = 1
    /\ clients[2].readyState = "open"
    /\ clients[2].inbox = <<clients[1].inbox[1], sent[1]>>

----------------------------------------------------------------------------
(* Properties of the watcher's failure *)

\* C29: once the watcher has reported an error, watching is over: no step
\* adds a path to pendingChanges or arms a flush timer; the process goes on,
\* and GET /status answers 200 with the retained world state as it is,
\* leaving it unchanged.
C29_WatchErrorStopsWatchingOnly ==
    [][/\ watchErrors > 0 =>
              /\ Len(pendingChanges') <= Len(pendingChanges)
              /\ timers' \subseteq timers
       /\ GetStatus =>
              /\ responses'[Len(responses')].status = 200
              /\ responses'[Len(responses')].body.worldState = worldState
              /\ worldState' = worldState]_vars

----------------------------------------------------------------------------
(* Properties of the first successful parse *)

\* the previous state is the one the process starts with
FirstParse == dOld.players = <<>> /\ dOld.palCount = 0 /\ dOld.lastParsed = NullTime

\* C30: analysed against the state the process starts with (no players,
\* palCount 0, lastParsed null), a successful snapshot yields one new_player
\* event for each entry of its player list, in the list's order, and no
\* other event; with an empty player list it yields no event, and the gate
\* has nothing to choose.
C30_FirstParseYieldsNewPlayersOnly ==
    (dDone /\ dNew.success /\ FirstParse) =>
        /\ Len(dEvents) = Len(dNew.players)
        /\ \A i \in DOMAIN dEvents :
              /\ dEvents[i].type = "new_player"
              /\ dEvents[i].comment.repl.player = <<dNew.players[i]>>
        /\ dNew.players = <<>> => (dEvents = <<>> /\ dBest = <<>>)

\* C30 witness: a first snapshot with two players and twelve pals has been
\* analysed.
C30_Witness ==
    /\ dDone
    /\ dNew.success
    /\ FirstParse
    /\ dNew.players = <<"A", "B">>
    /\ dNew.pal_count = 12
    /\ Len(dEvents) = 2

----------------------------------------------------------------------------
(* Properties of the relay's upstream connection *)

\* the upstream sockets whose 'close' event is still to come
LiveSockets == {k \in DOMAIN sockets : sockets[k] # "closed"}

\* from the first connectToObserver on there is exactly one of: a socket
\* that has not closed, and then it is the newest one, or a pending
\* reconnect timer
OneSocketOrOneTimer ==
    sockets # <<>> =>
        /\ Cardinality(LiveSockets) + Len(reconnectTimers) = 1
        /\ LiveSockets \subseteq {Len(sockets)}

----------------------------------------------------------------------------
(* Properties of a flush pass's broadcast *)

\* the step broadcasts nothing or one game_event
AtMostOneGameEvent ==
    \/ sent' = sent
    \/ /\ Len(sent') = Len(sent) + 1
       /\ SubSeq(sent', 1, Len(sent)) = sent
       /\ sent'[Len(sent')].type = "game_event"

\* C32: a flush pass broadcasts at most one game_event: the timer's callback
\* broadcasts nothing when it suspends in a parse and at most one event when
\* it falls back at once, and the resumed half broadcasts at most one; a
\* broadcast of the parse path carries as worldState the players and
\* palCount of the retained state as the same step has overwritten it from
\* the snapshot.
C32_OneBroadcastWithFreshState ==
    [][/\ \A d \in timers :
             ProcessPendingChanges(d) =>
                 /\ AtMostOneGameEvent
                 /\ Len(passes') > Len(passes) => sent' = sent
       /\ \A i \in DOMAIN passes :
             /\ ParseRejected(i) => AtMostOneGameEvent
             /\ \A saveData \in Snapshots :
                   ParseResolved(i, saveData) =>
                       /\ AtMostOneGameEvent
                       /\ sent' # sent =>
                              /\ saveData.success
                              /\ worldState'.players = saveData.players
                              /\ worldState'.palCount = saveData.pal_count
                              /\ sent'[Len(sent')].worldState =
                                     <<[players |-> worldState'.players,
                                        palCount |-> worldState'.palCount]>>]_vars

\* C32 witness: a diff pass has just broadcast the state it has just written,
\* which differs from the state an earlier diff pass broadcast.
C32_Witness ==
    /\ lastPass.kind = "diff"
    /\ lastPass.emitted
    /\ worldState.lastParsed = now
    /\ Len(sent) >= 2
    /\ sent[Len(sent)].worldState =
           <<[players |-> worldState.players, palCount |-> worldState.palCount]>>
    /\ \E i \in 1..(Len(sent) - 1) :
           /\ sent[i].worldState # <<>>
           /\ sent[i].worldState # sent[Len(sent)].worldState

----------------------------------------------------------------------------
(* Properties of the mirror through an outage *)

\* the newest events of the greeting's window
GreetingWindowOf(events) ==
    SubSeq(events, 1, IF Len(events) < greetingWindow THEN Len(events)
                      ELSE greetingWindow)

\* C33: an upstream error, an upstream close and the reconnect that follows
\* leave the mirror and recentEvents as they are; a browser that attaches
\* while the observer is away is greeted with the mirror and the newest
\* events of recentEvents, and GET /status answers with the mirror.
C33_MirrorSurvivesOutage ==
    [][/\ \A k \in DOMAIN sockets :
             (UpstreamError(k) \/ UpstreamClose(k)) =>
                 (mirror' = mirror /\ recentEvents' = recentEvents)
       /\ \A j \in DOMAIN reconnectTimers :
             Reconnect(j) => (mirror' = mirror /\ recentEvents' = recentEvents)
       /\ (~observerConnected /\ BrowserConnect) =>
              LET greeting == browsers'[Len(browsers')].inbox[1]
              IN  /\ greeting.worldState = <<mirror>>
                  /\ greeting.recentEvents = <<GreetingWindowOf(recentEvents)>>
       /\ (~observerConnected /\ RelayGetStatus) =>
              /\ responses'[Len(responses')].status = 200
              /\ responses'[Len(responses')].body.worldState = mirror
              /\ responses'[Len(responses')].body.observerConnected = FALSE]_vars

\* C33 witness: the upstream has closed and a reconnect attempt is under
\* way; a browser attached after the close and a status query made during
\* the outage both got the state the relay held before the outage, and the
\* relay still holds it with its events.
C33_Witness ==
    /\ sockets = <<"closed", "connecting">>
    /\ ~observerConnected
    /\ mirror = EarlierMirror
    /\ Len(recentEvents) = greetingWindow + 1
    /\ Len(browsers) = 1
    /\ browsers[1].inbox[1].message = <<"Waiting for Observer...">>
    /\ browsers[1].inbox[1].worldState = <<EarlierMirror>>
    /\ Len(browsers[1].inbox[1].recentEvents[1]) = greetingWindow
    /\ Len(responses) = 1
    /\ responses[1].body = [worldState |-> EarlierMirror, observerConnected |-> FALSE]

====
